---- MODULE Spec2Model ----
(***************************************************************************)
(* Model of src/api/bug_detection_api.py: the background activities that   *)
(* wait for a detection task (generate_report_task, store_structured_data),*)
(* the artifacts they write, the handlers get_structured_data,             *)
(* download_report and get_ai_report, and the pure transforms applied to a *)
(* detection result.                                                       *)
(*                                                                         *)
(* A Python dict is a TLA+ function whose DOMAIN is the set of keys that   *)
(* are present; d.get(k, default) is Get(d, k, default).  Python's None is *)
(* the value None.  Time is counted in whole seconds; a step of code takes *)
(* no time and asyncio.sleep(n) takes exactly n seconds.                   *)
(***************************************************************************)
EXTENDS Integers, Sequences, FiniteSets, TLC

VARIABLES
    now,          \* wall clock, in seconds
    bug_detection_agent, \* the global set at startup: the agent, or None
    submitted,    \* number of tasks submitted so far
    record,       \* the status provider's record of each task (owned by the runner)
    args,         \* args[t]: file_path and analysis_type of the upload that made task t
    started,      \* time of the upload that made the task
    begun,        \* begun[t][a]: time at which activity a of task t began to run
    pc,           \* pc[t][a]: position of activity a of task t
    waited_time,  \* waited_time[t][a]: the local variable of the poll loop
    task_status,  \* task_status[t][a]: the last answer of get_task_status
    wake_at,      \* wake_at[t][a]: time at which the pending asyncio.sleep returns
    polls,        \* polls[t][a]: elapsed time of every status query made so far
    reports,      \* directory reports/: file name -> content
    structured,   \* directory structured_data/: file name -> content
    response,     \* outcome of the last request to a retrieval handler
    request,      \* the request a handler is suspended in, or None
    fn_in,        \* input drawn for the pure transforms
    fn_cat,       \* result of categorize_issues_by_priority on fn_in
    fn_report,    \* result of generate_ai_report on fn_in
    fn_docs       \* structured payloads built from fn_in, in order of construction

vars == <<now, bug_detection_agent, submitted, record, args, started, begun, pc, waited_time, task_status,
          wake_at, polls, reports, structured, response, request,
          fn_in, fn_cat, fn_report, fn_docs>>

orch_vars == <<bug_detection_agent, submitted, record, args, started, begun, pc, waited_time, task_status,
               wake_at, polls, reports, structured, response, request>>

fn_vars == <<fn_in, fn_cat, fn_report, fn_docs>>

(***************************************************************************)
(* Bounds of the model.                                                    *)
(***************************************************************************)
\* The waiter's parameters max_wait_time / wait_interval (300 and 2 in the
\* source), scaled down to the T_max = 4, Delta = 2 of the specification.
max_wait_time == 4
wait_interval == 2
\* The latest time of a submission and of the start of its background functions.
MaxSubmitTime == 1
\* The longest time a call of the agent's generate_downloadable_report takes.
MaxAgentTime == 1
\* Lengths of the Finding sequences drawn for the pure transforms.
MaxShort == 2
MaxLong == 7
\* Latest time at which a payload is built in the transform specification.
MaxFnClock == 2

\* error_issues[:5] / warning_issues[:5]
ShowLimit == 5
\* count > 5 in analyze_project_structure
HighIssueThreshold == 5
\* warning_count > 10 in generate_fix_recommendations
WarningReviewThreshold == 10

(***************************************************************************)
(* Python values.                                                          *)
(***************************************************************************)
None == [py_none |-> TRUE]
EmptyDict == [k \in {} |-> None]

\* An agent object, by the names of the optional methods it has.
AgentWith(methods) == [methods |-> methods]

\* startup_event: the agent, or None when making or starting it raised.
Agents ==
    {None} \cup {AgentWith(methods) : methods \in SUBSET {"generate_downloadable_report"}}

hasattr(obj, name) == obj # None /\ name \in obj.methods

\* hasattr(bug_detection_agent, 'generate_downloadable_report')
has_gdr == hasattr(bug_detection_agent, "generate_downloadable_report")

Get(d, k, default) == IF k \in DOMAIN d THEN d[k] ELSE default

\* d.get(k) == v, for a value v other than None
GetIs(d, k, v) == k \in DOMAIN d /\ d[k] = v

Min(a, b) == IF a <= b THEN a ELSE b

\* seq[:n]
Take(seq, n) == SubSeq(seq, 1, Min(n, Len(seq)))

UpperLetters == "ABCDEFGHIJKLMNOPQRSTUVWXYZ"
LowerLetters == "abcdefghijklmnopqrstuvwxyz"

LowerChar(c) ==
    IF \E i \in 1..26 : SubSeq(UpperLetters, i, i) = c
    THEN LET i == CHOOSE j \in 1..26 : SubSeq(UpperLetters, j, j) = c
         IN SubSeq(LowerLetters, i, i)
    ELSE c

RECURSIVE Lower(_)
\* str.lower()
Lower(s) ==
    IF Len(s) = 0 THEN ""
    ELSE LowerChar(SubSeq(s, 1, 1)) \o Lower(SubSeq(s, 2, Len(s)))

\* keyword in s
Contains(s, keyword) ==
    \E i \in 1..(Len(s) - Len(keyword) + 1) :
        SubSeq(s, i, i + Len(keyword) - 1) = keyword

(***************************************************************************)
(* categorize_issues_by_priority                                           *)
(***************************************************************************)
SecurityKeywords ==
    {"security", "vulnerability", "injection", "xss", "csrf", "secret", "password"}

TierOf_HighBeforeCritical(issue) ==
    LET severity == Get(issue, "severity", "info")
        issue_type == Get(issue, "type", "")
    IN IF severity = "error" THEN "high"
       ELSE IF severity = "error"
                /\ \E keyword \in SecurityKeywords : Contains(Lower(issue_type), keyword)
            THEN "critical"
       ELSE IF severity = "warning" THEN "medium"
       ELSE "low"

\* The branch of the if/elif chain an issue takes.
TierOf(issue) ==
    LET severity == Get(issue, "severity", "info")
        issue_type == Get(issue, "type", "")
    IN IF severity = "error"
          /\ \E keyword \in SecurityKeywords : Contains(Lower(issue_type), keyword)
       THEN "critical"
       ELSE IF severity = "error" THEN "high"
       ELSE IF severity = "warning" THEN "medium"
       ELSE "low"

RECURSIVE CategorizeLoop_DropRepeated(_, _)
CategorizeLoop_DropRepeated(issues, cats) ==
    IF Len(issues) = 0 THEN cats
    ELSE LET issue == issues[1]
             tier == TierOf(issue)
             seen == \E i \in 1..Len(cats[tier]) : cats[tier][i] = issue
         IN CategorizeLoop_DropRepeated(Tail(issues),
                IF seen THEN cats
                ELSE [cats EXCEPT ![tier] = Append(@, issue)])

RECURSIVE CategorizeLoop(_, _)
\* The for loop: each issue is appended to the list of its tier.
CategorizeLoop(issues, cats) ==
    IF Len(issues) = 0 THEN cats
    ELSE CategorizeLoop(Tail(issues),
                        [cats EXCEPT ![TierOf(issues[1])] = Append(@, issues[1])])

categorize_issues_by_priority(issues) ==
    CategorizeLoop(issues,
                   [critical |-> <<>>, high |-> <<>>, medium |-> <<>>, low |-> <<>>])

(***************************************************************************)
(* generate_fix_recommendations                                            *)
(***************************************************************************)
generate_fix_recommendations(issues) ==
    LET IsError(issue) == GetIs(issue, "severity", "error")
        IsWarning(issue) == GetIs(issue, "severity", "warning")
        IsSecurity(issue) == Contains(Lower(Get(issue, "type", "")), "security")
        error_count == Len(SelectSeq(issues, IsError))
        warning_count == Len(SelectSeq(issues, IsWarning))
        security_count == Len(SelectSeq(issues, IsSecurity))
    IN [immediate_actions |->
            (IF error_count > 0
             THEN <<[text |-> "fix_errors", count |-> error_count]>> ELSE <<>>)
            \o (IF security_count > 0
                THEN <<[text |-> "security_first", count |-> security_count]>> ELSE <<>>),
        short_term_improvements |->
            IF warning_count > WarningReviewThreshold
            THEN <<[text |-> "review_warnings"]>> ELSE <<>>,
        long_term_optimizations |->
            <<[text |-> "continuous_integration"], [text |-> "coding_standards"]>>]

(***************************************************************************)
(* analyze_project_structure                                               *)
(***************************************************************************)
IsHighIssueFile_AtLeast(count) == count >= HighIssueThreshold

\* if count > 5
IsHighIssueFile(count) == count > HighIssueThreshold

analyze_project_structure(detection_results, analysis_type) ==
    LET issues == Get(detection_results, "issues", <<>>)
        FileOf(issue) == Get(issue, "file", "unknown")
        files == {FileOf(issues[i]) : i \in 1..Len(issues)}
        file_issue_count ==
            [f \in files |-> Cardinality({i \in 1..Len(issues) : FileOf(issues[i]) = f})]
        total_files == IF Cardinality(files) = 0 THEN 1 ELSE Cardinality(files)
    IN [analysis_type |-> analysis_type,
        file_count |-> Get(detection_results, "total_files", 1),
        languages |-> Get(detection_results, "languages_detected", <<>>),
        complexity_indicators |->
            IF Len(issues) = 0
            THEN [high_issue_files |-> 0,
                  average_issues_per_file |-> [num |-> 0, den |-> 1]]
            ELSE [high_issue_files |->
                      Cardinality({f \in files : IsHighIssueFile(file_issue_count[f])}),
                  \* len(issues) / total_files, kept as a fraction
                  average_issues_per_file |-> [num |-> Len(issues), den |-> total_files]]]

(***************************************************************************)
(* generate_ai_report.  The document is kept as its parts: the header's    *)
(* numbers, the entries of the two listed sections, the advisory lines and *)
(* the lines of the closing summary, in the order they are written.        *)
(***************************************************************************)
AdvisoryTypes ==
    <<"unhandled_exception", "potential_division_by_zero", "unused_import",
      "missing_docstring", "hardcoded_secrets">>

\* The four lines written for one listed issue.
ReportEntry(issue) ==
    [type |-> Get(issue, "type", "unknown"),
     line |-> Get(issue, "line", 0),
     message |-> Get(issue, "message", "")]

Shown_All(selected) == selected

\* error_issues[:5], warning_issues[:5]
Shown(selected) == Take(selected, ShowLimit)

SummaryLines_Shown(error_issues, warning_issues, info_issues) ==
    (IF Len(error_issues) > 0
     THEN <<[severity |-> "error", count |-> Len(Shown(error_issues))]>> ELSE <<>>)
    \o (IF Len(warning_issues) > 0
        THEN <<[severity |-> "warning", count |-> Len(Shown(warning_issues))]>> ELSE <<>>)
    \o (IF Len(info_issues) > 0
        THEN <<[severity |-> "info", count |-> Len(info_issues)]>> ELSE <<>>)

\* The closing summary: one line per severity with a count above zero.
SummaryLines(error_issues, warning_issues, info_issues) ==
    (IF Len(error_issues) > 0
     THEN <<[severity |-> "error", count |-> Len(error_issues)]>> ELSE <<>>)
    \o (IF Len(warning_issues) > 0
        THEN <<[severity |-> "warning", count |-> Len(warning_issues)]>> ELSE <<>>)
    \o (IF Len(info_issues) > 0
        THEN <<[severity |-> "info", count |-> Len(info_issues)]>> ELSE <<>>)

\* Values that are not dicts: None, and a string s kept as PyStr(s).
PyStr(s) == [py_str |-> s]

IsDict(value) == "py_none" \notin DOMAIN value /\ "py_str" \notin DOMAIN value

\* The truth value of a dict or of None: an empty dict and None are false.
Truthy(value) == value # None /\ DOMAIN value # {}

\* An aggregate is a dict whose `issues` are all dicts.
WellFormed(detection_results) ==
    /\ IsDict(detection_results)
    /\ LET issues == Get(detection_results, "issues", <<>>)
       IN \A i \in 1..Len(issues) : IsDict(issues[i])

TypeName(value) == IF value = None THEN "NoneType" ELSE "str"

\* The exception raised by value.get(...) on a value that is not a dict.
AttributeError(value) ==
    [exception |-> "AttributeError", object |-> TypeName(value), attribute |-> "get"]

Raised(error) == [raised |-> TRUE, error |-> error]

Returned(value) == [raised |-> FALSE, value |-> value]

\* The body of the try block: the document it returns, or the exception of
\* the first statement that raises.  The list comprehensions call issue.get on
\* the entries in order, so the first entry that is not a dict raises.
ReportBody(detection_results, file_path) ==
    IF ~IsDict(detection_results)
    THEN Raised(AttributeError(detection_results))
    ELSE
    LET issues == Get(detection_results, "issues", <<>>)
        total_issues == Get(detection_results, "total_issues", 0)
        malformed == {i \in 1..Len(issues) : ~IsDict(issues[i])}
        first_malformed == CHOOSE i \in malformed : \A j \in malformed : i <= j
        IsError(issue) == GetIs(issue, "severity", "error")
        IsWarning(issue) == GetIs(issue, "severity", "warning")
        IsInfo(issue) == GetIs(issue, "severity", "info")
        error_issues == SelectSeq(issues, IsError)
        warning_issues == SelectSeq(issues, IsWarning)
        info_issues == SelectSeq(issues, IsInfo)
        issue_types == {Get(issues[i], "type", "unknown") : i \in 1..Len(issues)}
        IsPresent(advisory) == advisory \in issue_types
    IN IF total_issues = 0
       THEN Returned([document |-> "no_defects"])
       ELSE IF malformed # {}
       THEN Raised(AttributeError(issues[first_malformed]))
       ELSE Returned(
            [document |-> "report",
             file_path |-> file_path,
             total_issues |-> total_issues,
             error_count |-> Len(error_issues),
             warning_count |-> Len(warning_issues),
             info_count |-> Len(info_issues),
             \* a section is written only when its list is not empty
             critical_section |->
                 [i \in 1..Len(Shown(error_issues)) |-> ReportEntry(Shown(error_issues)[i])],
             warning_section |->
                 [i \in 1..Len(Shown(warning_issues)) |->
                      ReportEntry(Shown(warning_issues)[i])],
             suggestions |-> SelectSeq(AdvisoryTypes, IsPresent),
             summary |-> SummaryLines(error_issues, warning_issues, info_issues)])

ExceptHandler_Reraise(attempt) ==
    IF attempt.raised THEN attempt ELSE attempt.value

\* except Exception as e: the document that embeds str(e).
ExceptHandler(attempt) ==
    IF attempt.raised
    THEN [document |-> "error", error |-> attempt.error]
    ELSE attempt.value

generate_ai_report(detection_results, file_path) ==
    ExceptHandler(ReportBody(detection_results, file_path))

(***************************************************************************)
(* _get_issues_by_severity, _get_issues_by_type, create_simple_report      *)
(***************************************************************************)
CountBy(issues, key, default) ==
    LET keys == {Get(issues[i], key, default) : i \in 1..Len(issues)}
    IN [k \in keys |->
           Cardinality({i \in 1..Len(issues) : Get(issues[i], key, default) = k})]

_get_issues_by_severity(issues) == CountBy(issues, "severity", "info")

_get_issues_by_type(issues) == CountBy(issues, "type", "unknown")

\* datetime.now().strftime("%Y%m%d_%H%M%S"): the clock at one-second resolution
ReportFileName(t) == <<"reports", "bug_detection_report", t>>

\* The report_data written by create_simple_report.
SimpleReport(detection_results, file_path, task_id, t) ==
    [report_info |->
         [generated_at |-> t,
          file_path |-> file_path,
          task_id |-> task_id,
          total_issues |-> Get(detection_results, "total_issues", 0),
          summary |-> Get(detection_results, "summary", EmptyDict),
          detection_tools |-> Get(detection_results, "detection_tools", <<>>)],
     issues |-> Get(detection_results, "issues", <<>>),
     statistics |->
         [by_severity |-> _get_issues_by_severity(Get(detection_results, "issues", <<>>)),
          by_type |-> _get_issues_by_type(Get(detection_results, "issues", <<>>))]]

(***************************************************************************)
(* The structured payload of store_structured_data.                        *)
(***************************************************************************)
StructuredFileName(task_id) == <<"structured_data", "structured_data", task_id>>

\* The dict structured_data, built at time t (datetime.now()).
StructuredData(task_id, file_path, analysis_type, detection_results, t) ==
    [task_id |-> task_id,
     file_path |-> file_path,
     analysis_type |-> analysis_type,
     timestamp |-> t,
     summary |->
         [total_issues |-> Get(detection_results, "total_issues", 0),
          error_count |-> Get(Get(detection_results, "summary", EmptyDict), "error_count", 0),
          warning_count |->
              Get(Get(detection_results, "summary", EmptyDict), "warning_count", 0),
          info_count |-> Get(Get(detection_results, "summary", EmptyDict), "info_count", 0),
          languages_detected |-> Get(detection_results, "languages_detected", <<>>),
          total_files |-> Get(detection_results, "total_files", 1)],
     issues_by_priority |->
         categorize_issues_by_priority(Get(detection_results, "issues", <<>>)),
     fix_recommendations |->
         generate_fix_recommendations(Get(detection_results, "issues", <<>>)),
     project_structure |-> analyze_project_structure(detection_results, analysis_type),
     detection_metadata |->
         [detection_tools |-> Get(detection_results, "detection_tools", <<>>),
          analysis_time |-> Get(detection_results, "analysis_time", 0),
          project_path |-> Get(detection_results, "project_path", file_path)]]

(***************************************************************************)
(* The status provider (bug_detection_agent.get_task_status) and the       *)
(* runner that owns the task records.                                      *)
(***************************************************************************)
\* The task ids submit_task hands out (f"task_{uuid.uuid4().hex[:12]}"), in order.
TaskIds == <<"task_3f9a", "task_b07c">>
Tasks == {TaskIds[i] : i \in 1..Len(TaskIds)}
Activities == {"report", "store"}

\* The time a wait that ends in a timeout takes: its sleeps.
WaitLength == ((max_wait_time + wait_interval - 1) \div wait_interval) * wait_interval

\* Every activity is over by this time: the two activities of a task run one
\* after the other.
MaxClock == MaxSubmitTime + MaxAgentTime + Cardinality(Activities) * WaitLength

\* A detection result with two findings, returned by a completed task.
SampleResults ==
    [total_issues |-> 2,
     issues |-> <<[severity |-> "error", type |-> "sql_injection", file |-> "a.py",
                   line |-> 3, message |-> "m1"],
                  [severity |-> "warning", type |-> "unused_import", file |-> "a.py",
                   line |-> 1, message |-> "m2"]>>,
     summary |-> [error_count |-> 1, warning_count |-> 1, info_count |-> 0]]

\* A detection result whose `issues` holds an entry that is not a dict.
MalformedResults == [total_issues |-> 1, issues |-> <<None>>]

\* The "result" a completed record may carry.
CompletedResults ==
    {None, [detection_results |-> EmptyDict], [detection_results |-> None],
     [detection_results |-> SampleResults], [detection_results |-> MalformedResults]}

Uploads ==
    {[file_path |-> "uploads/a.py", analysis_type |-> "file"],
     [file_path |-> "uploads/p.zip", analysis_type |-> "project"]}

StatusOf(rec) == IF rec = None THEN "no_record" ELSE rec.status

IsCompleted_FailedEndsWait(ts) ==
    ts # None /\ Get(ts, "status", "") \in {"completed", "failed"}

\* task_status and task_status.get("status") == "completed"
IsCompleted(ts) == ts # None /\ GetIs(ts, "status", "completed")

LoopCondition_Inclusive(waited) == waited <= max_wait_time

\* while waited_time < max_wait_time
LoopCondition(waited) == waited < max_wait_time

WaitedAfterSleep_BySecond(waited) == waited + 1

\* waited_time += wait_interval
WaitedAfterSleep(waited) == waited + wait_interval

TimedOut_Strict(waited) == waited > max_wait_time

TimedOut_AtLastQuery(waited) == waited + wait_interval >= max_wait_time

\* if waited_time >= max_wait_time: return
TimedOut(waited) == waited >= max_wait_time

\* task_status.get("result", {}).get("detection_results", {})
DetectionResults(ts) == Get(Get(ts, "result", EmptyDict), "detection_results", EmptyDict)

\* What the code after the poll loop does with the last answer ts, up to the
\* test of the detection results: "timeout", "error" (an exception, caught and
\* printed), "no_result" (the results are None or empty) or "write".
AfterLoop(waited, ts) ==
    IF TimedOut(waited) THEN "timeout"
    ELSE IF ts = None THEN "error"
    ELSE IF Get(ts, "result", EmptyDict) = None THEN "error"
    ELSE IF ~Truthy(DetectionResults(ts)) THEN "no_result"
    ELSE "write"

\* The artifact is made from detection_results by the code of this module.
\* The transforms raise on results that are not well formed:
\* store_structured_data then ends in its handler, and create_simple_report
\* returns None, both without a file.
ArtifactMade(a, detection_results) == WellFormed(detection_results)

\* How activity a goes on after the poll loop.  With generate_downloadable_report
\* the report activity awaits the agent ("agent"); "error" also stands for the
\* end of generate_report_task after create_simple_report has failed.
ActivityOutcome(a, waited, ts) ==
    IF AfterLoop(waited, ts) # "write" THEN AfterLoop(waited, ts)
    ELSE IF a = "report" /\ has_gdr THEN "agent"
    ELSE IF ArtifactMade(a, DetectionResults(ts)) THEN "write"
    ELSE "error"

\* The position an activity is in once the loop condition was evaluated with `waited`.
NextPosition(a, waited, ts) ==
    IF LoopCondition(waited) THEN "query" ELSE ActivityOutcome(a, waited, ts)

NoFile == [exists |-> FALSE]
File(content) == [exists |-> TRUE, content |-> content]

\* ai_report_{task_id}.md
AiReportFileName(task_id) == <<"reports", "ai_report", task_id>>

ReportNames == {ReportFileName(t) : t \in 0..MaxClock}
AiReportNames == {AiReportFileName(t) : t \in Tasks}
StructuredNames == {StructuredFileName(t) : t \in Tasks}

\* The state of the service after startup, before any upload.
InitService ==
    /\ now = 0
    /\ submitted = 0
    /\ record = [t \in Tasks |-> None]
    /\ args = [t \in Tasks |-> None]
    /\ started = [t \in Tasks |-> 0]
    /\ begun = [t \in Tasks |-> [a \in Activities |-> 0]]
    /\ pc = [t \in Tasks |-> [a \in Activities |-> "idle"]]
    /\ waited_time = [t \in Tasks |-> [a \in Activities |-> 0]]
    /\ task_status = [t \in Tasks |-> [a \in Activities |-> None]]
    /\ wake_at = [t \in Tasks |-> [a \in Activities |-> 0]]
    /\ polls = [t \in Tasks |-> [a \in Activities |-> <<>>]]
    /\ reports = [n \in ReportNames \cup AiReportNames |-> NoFile]
    /\ structured = [n \in StructuredNames |-> NoFile]
    /\ response = None
    /\ request = None

Init ==
    /\ InitService
    /\ bug_detection_agent \in Agents
    /\ fn_in = None
    /\ fn_cat = None
    /\ fn_report = None
    /\ fn_docs = <<>>

\* The files an activity writes when it leaves the loop with `outcome`.  With
\* generate_downloadable_report the report is made by the agent (outcome
\* "agent"), outside reports/ as far as this module knows; without it
\* create_simple_report writes the file.
ReportsAfter(t, outcome, ts) ==
    IF outcome = "write"
    THEN [reports EXCEPT ![ReportFileName(now)] =
              File(SimpleReport(DetectionResults(ts), args[t].file_path, t, now))]
    ELSE reports

StructuredAfter(t, outcome, ts) ==
    IF outcome = "write"
    THEN [structured EXCEPT ![StructuredFileName(t)] =
              File(StructuredData(t, args[t].file_path, args[t].analysis_type,
                                  DetectionResults(ts), now))]
    ELSE structured

Finished(outcome) == IF outcome = "write" THEN "done" ELSE outcome

AnswerStored_Shared(t, a, answer) ==
    [task_status EXCEPT ![t] = [b \in Activities |-> answer]]

\* task_status = await bug_detection_agent.get_task_status(task_id): the answer
\* is a local variable of the activity that asked.
AnswerStored(t, a, answer) == [task_status EXCEPT ![t][a] = answer]

\* The positions in which the activity's function is still running; once it has
\* returned, its local variables are gone.
Running(position) == position \in {"query", "sleep", "agent"}

\* The two functions of an upload are added to one BackgroundTasks object,
\* which runs them in the order they were added, each when the one before has
\* returned: store_structured_data begins, and runs up to its first await,
\* when generate_report_task returns.
StoreBegins(a, position) == a = "report" /\ ~Running(position)

PositionsAfter(t, a, position) ==
    IF StoreBegins(a, position)
    THEN [pc EXCEPT ![t] = [b \in Activities |->
                               IF b = "store"
                               THEN Finished(NextPosition("store", 0, None))
                               ELSE position]]
    ELSE [pc EXCEPT ![t][a] = position]

BegunAfter(t, a, position) ==
    IF StoreBegins(a, position) THEN [begun EXCEPT ![t]["store"] = now] ELSE begun

\* upload_file_for_detection, for an upload that passes the checks on the
\* agent, the size and the file type (a rejected upload changes nothing), up
\* to the await of submit_task, in which the agent makes the task's record.
Upload(upload) ==
    /\ bug_detection_agent # None
    /\ submitted < Len(TaskIds)
    /\ now <= MaxSubmitTime
    /\ LET t == TaskIds[submitted + 1]
       IN /\ submitted' = submitted + 1
          /\ record' = [record EXCEPT ![t] = [status |-> "pending", result |-> None]]
          /\ args' = [args EXCEPT ![t] = upload]
          /\ started' = [started EXCEPT ![t] = now]
    /\ UNCHANGED <<now, bug_detection_agent, begun, pc, waited_time, task_status, wake_at, polls,
                   reports, structured, response, request, fn_vars>>

\* submit_task has returned the task id: the two background functions are
\* added to the BackgroundTasks object and the handler returns its response.
UploadReturn(t) ==
    /\ args[t] # None
    /\ \A a \in Activities : pc[t][a] = "idle"
    /\ now <= MaxSubmitTime
    /\ pc' = [pc EXCEPT ![t] = [a \in Activities |-> "queued"]]
    /\ UNCHANGED <<now, bug_detection_agent, submitted, record, args, started, begun, waited_time,
                   task_status, wake_at, polls, reports, structured, response, request, fn_vars>>

\* The response is sent and the first background function, generate_report_task,
\* begins: it runs up to its first await.
BackgroundBegin(t) ==
    /\ \A a \in Activities : pc[t][a] = "queued"
    /\ now <= MaxSubmitTime
    /\ pc' = [pc EXCEPT ![t]["report"] = Finished(NextPosition("report", 0, None))]
    /\ begun' = [begun EXCEPT ![t]["report"] = now]
    /\ UNCHANGED <<now, bug_detection_agent, submitted, record, args, started, waited_time,
                   task_status, wake_at, polls, reports, structured, response, request, fn_vars>>

\* One pass of the loop body of activity a of task t, from the answer of
\* get_task_status to the next await or to the end of the activity.
Query(t, a) ==
    /\ pc[t][a] = "query"
    /\ LET ts == record[t]
           outcome == IF IsCompleted(ts)
                      THEN ActivityOutcome(a, waited_time[t][a], ts) ELSE "sleep"
       IN /\ task_status' = AnswerStored(t, a, IF Running(outcome) THEN ts ELSE None)
          /\ waited_time' = [waited_time EXCEPT ![t][a] =
                                IF Running(outcome) THEN @ ELSE 0]
          /\ polls' = [polls EXCEPT ![t][a] = Append(@, now - started[t])]
          /\ pc' = PositionsAfter(t, a, Finished(outcome))
          /\ begun' = BegunAfter(t, a, Finished(outcome))
          \* for a call of the agent: the time by which it is over
          /\ wake_at' = [wake_at EXCEPT ![t][a] =
                            IF outcome = "sleep" THEN now + wait_interval
                            ELSE IF outcome = "agent" THEN now + MaxAgentTime
                            ELSE @]
          /\ reports' = IF a = "report" THEN ReportsAfter(t, outcome, ts) ELSE reports
          /\ structured' = IF a = "store" THEN StructuredAfter(t, outcome, ts)
                           ELSE structured
    /\ UNCHANGED <<now, bug_detection_agent, submitted, record, args, started, response, request, fn_vars>>

\* asyncio.sleep(wait_interval) returns: waited_time += wait_interval, then the
\* loop condition, and past the loop the code that follows it.
Wake(t, a) ==
    /\ pc[t][a] = "sleep"
    /\ now = wake_at[t][a]
    /\ LET waited == WaitedAfterSleep(waited_time[t][a])
           outcome == NextPosition(a, waited, task_status[t][a])
       IN /\ waited_time' = [waited_time EXCEPT ![t][a] =
                                IF Running(outcome) THEN waited ELSE 0]
          /\ task_status' = [task_status EXCEPT ![t][a] =
                                IF Running(outcome) THEN @ ELSE None]
          /\ pc' = PositionsAfter(t, a, Finished(outcome))
          /\ begun' = BegunAfter(t, a, Finished(outcome))
          /\ reports' = IF a = "report"
                        THEN ReportsAfter(t, outcome, task_status[t][a]) ELSE reports
          /\ structured' = IF a = "store"
                           THEN StructuredAfter(t, outcome, task_status[t][a])
                           ELSE structured
    /\ UNCHANGED <<now, bug_detection_agent, submitted, record, args, started, wake_at, polls,
                   response, request, fn_vars>>

\* await bug_detection_agent.generate_downloadable_report(...) is over: it
\* returned (a path or None; the activity only prints the path), or it raised
\* and generate_report_task ends in its handler.
AgentReturns(t, raised) ==
    /\ pc[t]["report"] = "agent"
    /\ LET position == IF raised THEN "error" ELSE "done"
       IN /\ pc' = PositionsAfter(t, "report", position)
          /\ begun' = BegunAfter(t, "report", position)
    /\ waited_time' = [waited_time EXCEPT ![t]["report"] = 0]
    /\ task_status' = [task_status EXCEPT ![t]["report"] = None]
    /\ UNCHANGED <<now, bug_detection_agent, submitted, record, args, started, wake_at, polls,
                   reports, structured, response, request, fn_vars>>

\* A second passes.  Code takes no time: an answered query or a due sleep is
\* handled before the clock moves.
Tick ==
    /\ now < MaxClock
    /\ \A t \in Tasks, a \in Activities :
           /\ pc[t][a] # "query"
           /\ pc[t][a] \in {"sleep", "agent"} => wake_at[t][a] > now
    /\ request # None => request.due > now
    /\ now' = now + 1
    /\ UNCHANGED <<orch_vars, fn_vars>>

\* The runner moves a task through its lifecycle.
RunnerStart(t) ==
    /\ StatusOf(record[t]) = "pending"
    /\ record' = [record EXCEPT ![t].status = "running"]
    /\ UNCHANGED <<now, bug_detection_agent, submitted, args, started, begun, pc, waited_time,
                   task_status, wake_at, polls, reports, structured, response, request, fn_vars>>

RunnerComplete(t, result) ==
    /\ StatusOf(record[t]) = "running"
    /\ record' = [record EXCEPT ![t] = [status |-> "completed", result |-> result]]
    /\ UNCHANGED <<now, bug_detection_agent, submitted, args, started, begun, pc, waited_time,
                   task_status, wake_at, polls, reports, structured, response, request, fn_vars>>

RunnerFail(t) ==
    /\ StatusOf(record[t]) = "running"
    /\ record' = [record EXCEPT ![t].status = "failed"]
    /\ UNCHANGED <<now, bug_detection_agent, submitted, args, started, begun, pc, waited_time,
                   task_status, wake_at, polls, reports, structured, response, request, fn_vars>>

\* The provider has no record of the task any more.
RunnerForget(t) ==
    /\ StatusOf(record[t]) = "pending"
    /\ record' = [record EXCEPT ![t] = None]
    /\ UNCHANGED <<now, bug_detection_agent, submitted, args, started, begun, pc, waited_time,
                   task_status, wake_at, polls, reports, structured, response, request, fn_vars>>

(***************************************************************************)
(* The retrieval handlers: get_structured_data, download_report,           *)
(* get_ai_report.                                                          *)
(***************************************************************************)
\* raise HTTPException(status_code=code)
HttpError(code) == [raised |-> TRUE, status_code |-> code]

\* An exception other than HTTPException raised by the try block.
OtherError(name) == [raised |-> TRUE, exception |-> name]

\* What the try block does: returns the document, or raises HTTPException(404).
StructuredLookup(task_id) ==
    IF ~structured[StructuredFileName(task_id)].exists
    THEN HttpError(404)
    ELSE [raised |-> FALSE, status_code |-> 200,
          data |-> structured[StructuredFileName(task_id)].content]

HandlerResult_ReraiseHttp(attempt) == attempt

\* except Exception as e: raise HTTPException(status_code=500, ...).
\* HTTPException is an Exception, so the 404 of the try block is caught too.
HandlerResult(attempt) ==
    IF attempt.raised
    THEN [raised |-> TRUE, status_code |-> 500,
          wrapped |-> [k \in DOMAIN attempt \ {"raised"} |-> attempt[k]]]
    ELSE attempt

get_structured_data(task_id) ==
    /\ response' = [handler |-> "get_structured_data", task_id |-> task_id]
                       @@ HandlerResult(StructuredLookup(task_id))
    /\ UNCHANGED <<now, bug_detection_agent, submitted, record, args, started, begun, pc, waited_time,
                   task_status, wake_at, polls, reports, structured, request, fn_vars>>

\* The checks both report handlers make on the task before anything else:
\* the HTTPException they raise, or None when the task is completed.
TaskCheck(ts) ==
    IF ts = None THEN HttpError(404)
    ELSE IF ~GetIs(ts, "status", "completed") THEN HttpError(400)
    ELSE None

\* task_status.get("result", {}).get("file_path", "")
ResultFilePath(ts) == Get(Get(ts, "result", EmptyDict), "file_path", "")

\* if not bug_detection_agent: raise HTTPException(status_code=500), before
\* the try block: the response is this error itself.
AgentNotStarted == HttpError(500)

\* What a call of the agent's generate_downloadable_report may do: return
\* the path of a file it made, return no such path, or raise.
AgentOutcomes == {"made", "none", "raised"}

\* The handler is suspended in the call of generate_downloadable_report.
Awaiting == [awaiting |-> "generate_downloadable_report"]

\* The try block of download_report, up to its answer or to the await of the
\* agent's generate_downloadable_report.
DownloadAttempt(task_id) ==
    LET ts == record[task_id]
    IN IF TaskCheck(ts) # None THEN TaskCheck(ts)
       ELSE IF Get(ts, "result", EmptyDict) = None THEN OtherError("AttributeError")
       ELSE IF ~Truthy(DetectionResults(ts)) THEN HttpError(404)
       ELSE IF has_gdr THEN Awaiting
       \* create_simple_report returns None when a transform raises
       ELSE IF ~WellFormed(DetectionResults(ts)) THEN HttpError(404)
       ELSE [raised |-> FALSE, status_code |-> 200, path |-> ReportFileName(now)]

\* The rest of the try block when the agent's call is over: the file it made,
\* 404 without such a file, or the exception the call raised.
DownloadAfterAgent(agent_outcome) ==
    IF agent_outcome = "made" THEN [raised |-> FALSE, status_code |-> 200]
    ELSE IF agent_outcome = "none" THEN HttpError(404)
    \* whatever the agent raises
    ELSE OtherError("RuntimeError")

\* download_report, from the request to its answer or to the await of the
\* agent's generate_downloadable_report.
download_report(task_id) ==
    LET attempt == IF bug_detection_agent = None THEN None ELSE DownloadAttempt(task_id)
        sent == [handler |-> "download_report", task_id |-> task_id]
    IN /\ request = None
       /\ response' =
              IF bug_detection_agent = None THEN sent @@ AgentNotStarted
              ELSE IF attempt = Awaiting THEN response
              ELSE sent @@ HandlerResult(attempt)
       /\ request' =
              IF attempt = Awaiting
              THEN sent @@ [due |-> now + MaxAgentTime]
              ELSE request
       /\ reports' =
              IF "path" \in DOMAIN attempt
              THEN [reports EXCEPT ![attempt.path] =
                        File(SimpleReport(DetectionResults(record[task_id]),
                                          ResultFilePath(record[task_id]), task_id, now))]
              ELSE reports
       /\ UNCHANGED <<now, bug_detection_agent, submitted, record, args, started, begun, pc,
                      waited_time, task_status, wake_at, polls, structured, fn_vars>>

\* The call of generate_downloadable_report made by download_report is over:
\* the handler answers.
DownloadAgentReturns(agent_outcome) ==
    /\ request # None
    /\ response' = [handler |-> request.handler, task_id |-> request.task_id]
                       @@ HandlerResult(DownloadAfterAgent(agent_outcome))
    /\ request' = None
    /\ UNCHANGED <<now, bug_detection_agent, submitted, record, args, started, begun, pc,
                   waited_time, task_status, wake_at, polls, reports, structured, fn_vars>>

\* The try block of get_ai_report: the stored document when there is one,
\* otherwise a document generated from the detection results and stored.
AiReportAttempt(task_id) ==
    LET ts == record[task_id]
    IN IF TaskCheck(ts) # None THEN TaskCheck(ts)
       ELSE IF reports[AiReportFileName(task_id)].exists
            THEN [raised |-> FALSE, status_code |-> 200, generated |-> FALSE,
                  ai_report |-> reports[AiReportFileName(task_id)].content]
       ELSE IF Get(ts, "result", EmptyDict) = None THEN OtherError("AttributeError")
       ELSE IF ~Truthy(DetectionResults(ts)) THEN HttpError(404)
       ELSE [raised |-> FALSE, status_code |-> 200, generated |-> TRUE,
             ai_report |-> generate_ai_report(DetectionResults(ts), ResultFilePath(ts))]

get_ai_report(task_id) ==
    LET attempt == IF bug_detection_agent = None THEN None ELSE AiReportAttempt(task_id)
        sent == [handler |-> "get_ai_report", task_id |-> task_id]
    IN /\ response' =
              IF bug_detection_agent = None THEN sent @@ AgentNotStarted
              ELSE sent @@ HandlerResult(attempt)
       /\ reports' =
              IF "generated" \in DOMAIN attempt /\ attempt.generated
              THEN [reports EXCEPT ![AiReportFileName(task_id)] = File(attempt.ai_report)]
              ELSE reports
       /\ UNCHANGED <<now, bug_detection_agent, submitted, record, args, started, begun, pc,
                      waited_time, task_status, wake_at, polls, structured, request, fn_vars>>

\* One upload, with every behaviour of the runner, and one request to a
\* retrieval handler.
Next ==
    \/ \E upload \in Uploads : submitted = 0 /\ Upload(upload)
    \/ \E t \in Tasks : UploadReturn(t)
    \/ \E t \in Tasks : BackgroundBegin(t)
    \/ \E t \in Tasks, a \in Activities : Query(t, a)
    \/ \E t \in Tasks, a \in Activities : Wake(t, a)
    \/ \E t \in Tasks, raised \in BOOLEAN : AgentReturns(t, raised)
    \/ Tick
    \/ \E t \in Tasks : RunnerStart(t)
    \/ \E t \in Tasks, result \in CompletedResults : RunnerComplete(t, result)
    \/ \E t \in Tasks : RunnerFail(t)
    \/ \E t \in Tasks : RunnerForget(t)
    \/ \E t \in Tasks : response = None /\ request = None /\ get_structured_data(t)
    \/ \E t \in Tasks : response = None /\ download_report(t)
    \/ \E agent_outcome \in AgentOutcomes : DownloadAgentReturns(agent_outcome)
    \/ \E t \in Tasks : response = None /\ request = None /\ get_ai_report(t)

Spec == Init /\ [][Next]_vars

\* Several uploads (a file first, then a project), each task completing with a
\* detection result, and one request for a report.
TasksNext ==
    \/ \E upload \in Uploads :
           /\ upload.analysis_type = (IF submitted = 0 THEN "file" ELSE "project")
           /\ Upload(upload)
    \/ \E t \in Tasks : UploadReturn(t)
    \/ \E t \in Tasks : BackgroundBegin(t)
    \/ \E t \in Tasks, a \in Activities : Query(t, a)
    \/ \E t \in Tasks, a \in Activities : Wake(t, a)
    \/ \E t \in Tasks, raised \in BOOLEAN : AgentReturns(t, raised)
    \/ Tick
    \/ \E t \in Tasks : RunnerStart(t)
    \/ \E t \in Tasks : RunnerComplete(t, [detection_results |-> SampleResults])
    \/ \E t \in Tasks : response = None /\ download_report(t)
    \/ \E agent_outcome \in AgentOutcomes : DownloadAgentReturns(agent_outcome)
    \/ \E t \in Tasks : response = None /\ request = None /\ get_ai_report(t)

TasksSpec == Init /\ [][TasksNext]_vars

(***************************************************************************)
(* The pure transforms, applied to detection results drawn from bounded    *)
(* sets.                                                                   *)
(***************************************************************************)
SeverityValues == {"error", "warning", "info", "critical"}

TypeValues ==
    {"sql_injection", "SQL_Injection", "XSS", "hardcoded_secrets", "weak_password",
     "csrf_token", "Security_Misconfig", "vulnerability", "unused_import",
     "unhandled_exception", "secure_random"}

\* Findings with every combination of a present or missing severity and type.
AllFindings ==
    {[severity |-> s, type |-> ty, line |-> 1] : s \in SeverityValues, ty \in TypeValues}
    \cup {[severity |-> s, line |-> 1] : s \in SeverityValues}
    \cup {[type |-> ty, line |-> 1] : ty \in TypeValues}
    \cup {[line |-> 1]}

SmallFindings ==
    {[severity |-> "error", type |-> "sql_injection", file |-> "a.py", line |-> 1],
     [severity |-> "error", type |-> "unhandled_exception", file |-> "a.py", line |-> 2],
     [severity |-> "warning", type |-> "sql_injection", file |-> "b.py", line |-> 3],
     [severity |-> "info", type |-> "missing_docstring", line |-> 4],
     [type |-> "hardcoded_secrets", file |-> "a.py"]}

\* The i-th finding of a long sequence: an error in a.py or a warning in b.py.
KindFinding(kind, i) ==
    IF kind = "E"
    THEN [severity |-> "error", type |-> "unhandled_exception", file |-> "a.py",
          line |-> i, message |-> "e"]
    ELSE [severity |-> "warning", type |-> "unused_import", file |-> "b.py",
          line |-> i, message |-> "w"]

SeqsUpTo(S, n) == UNION {[1..k -> S] : k \in 0..n}

LongIssues ==
    {[i \in 1..Len(kinds) |-> KindFinding(kinds[i], i)] :
        kinds \in SeqsUpTo({"E", "W"}, MaxLong)}

\* Findings without a file: one more than the threshold of a high-issue file,
\* alone and followed by a finding of a.py.
UnknownFileIssues ==
    LET unfiled == [i \in 1..(HighIssueThreshold + 1) |->
                        [severity |-> "info", type |-> "missing_docstring", line |-> i]]
    IN {unfiled, Append(unfiled, KindFinding("E", HighIssueThreshold + 2))}

\* Detection results: short sequences with a total_issues that may differ from
\* the number of findings, with and without the optional fields; single findings
\* of every shape; long sequences.
FnDetectionResults ==
    {[issues |-> issues, total_issues |-> n] :
        issues \in SeqsUpTo(SmallFindings, MaxShort), n \in {0, MaxShort + 1}}
    \cup {[issues |-> issues, total_issues |-> Len(issues),
           summary |-> [error_count |-> 1, warning_count |-> 2, info_count |-> 0],
           total_files |-> 3, analysis_time |-> 12, project_path |-> "proj"] :
             issues \in SeqsUpTo(SmallFindings, MaxShort)}
    \cup {[issues |-> <<f>>, total_issues |-> 1] : f \in AllFindings}
    \cup {[issues |-> issues, total_issues |-> Len(issues)] :
             issues \in LongIssues \cup UnknownFileIssues}
    \cup {EmptyDict}

\* Entries of `issues` that are not Findings.
MalformedEntries == {None, PyStr("oops")}

\* Aggregates whose `issues` holds an entry that is not a Finding, with a
\* total_issues of zero and of the length of the list; and no aggregate at all.
MalformedDetectionResults ==
    {[issues |-> issues, total_issues |-> n] :
        issues \in {q \in SeqsUpTo({KindFinding("E", 1), KindFinding("W", 2)}
                                      \cup MalformedEntries, MaxShort) :
                        \E i \in 1..Len(q) : q[i] \in MalformedEntries},
        n \in {0, MaxShort}}
    \cup {None}

FnInput(dr, task_id, upload) ==
    [detection_results |-> dr, task_id |-> task_id,
     file_path |-> upload.file_path, analysis_type |-> upload.analysis_type]

\* Every detection result for one upload, and the results without optional
\* fields for every task id and upload.
FnInputs ==
    {FnInput(dr, TaskIds[1], [file_path |-> "uploads/a.py", analysis_type |-> "file"]) :
        dr \in FnDetectionResults \cup MalformedDetectionResults}
    \cup {FnInput([issues |-> <<f>>], t, upload) :
            f \in SmallFindings, t \in Tasks, upload \in Uploads}

FnInit ==
    /\ InitService
    /\ bug_detection_agent = AgentWith({})
    /\ fn_in \in FnInputs
    /\ fn_cat = None
    /\ fn_report = None
    /\ fn_docs = <<>>

NothingComputed == fn_cat = None /\ fn_report = None /\ fn_docs = <<>>

\* categorize_issues_by_priority has no handler: on an entry that is not a dict
\* issue.get raises and the call yields no value.
Categorize ==
    /\ NothingComputed
    /\ WellFormed(fn_in.detection_results)
    /\ fn_cat' = categorize_issues_by_priority(Get(fn_in.detection_results, "issues", <<>>))
    /\ UNCHANGED <<now, orch_vars, fn_in, fn_report, fn_docs>>

Report ==
    /\ NothingComputed
    /\ fn_report' = generate_ai_report(fn_in.detection_results, fn_in.file_path)
    /\ UNCHANGED <<now, orch_vars, fn_in, fn_cat, fn_docs>>

\* The payload is built from the same input, at the current time.
\* store_structured_data returns before the construction when the results are
\* None or empty; the transforms called while the payload is built raise on an
\* entry that is not a dict, and store_structured_data then writes nothing.
BuildPayload ==
    /\ fn_cat = None /\ fn_report = None
    /\ Truthy(fn_in.detection_results)
    /\ WellFormed(fn_in.detection_results)
    /\ Len(fn_docs) < 2
    /\ fn_docs' = Append(fn_docs,
                         StructuredData(fn_in.task_id, fn_in.file_path,
                                        fn_in.analysis_type, fn_in.detection_results, now))
    /\ UNCHANGED <<now, orch_vars, fn_in, fn_cat, fn_report>>

FnTick ==
    /\ now < MaxFnClock
    /\ Len(fn_docs) = 1
    /\ now' = now + 1
    /\ UNCHANGED <<orch_vars, fn_vars>>

FnNext == Categorize \/ Report \/ BuildPayload \/ FnTick

FnSpec == FnInit /\ [][FnNext]_vars

\* A step of a background activity or of the clock.
Progress ==
    \/ Tick
    \/ \E t \in Tasks, a \in Activities : Query(t, a) \/ Wake(t, a)
    \/ \E t \in Tasks, raised \in BOOLEAN : AgentReturns(t, raised)

(***************************************************************************)
(* Properties of the completion wait.                                      *)
(***************************************************************************)
\* Time since activity a of task t began to run.
Elapsed(t, a) == now - begun[t][a]

\* The time of the i-th status query of the activity, counted from its beginning.
AskedAt(t, a, i) == polls[t][a][i] - (begun[t][a] - started[t])

\* C1, as stated: with a provider that never answers `completed` the waiter
\* queries at elapsed times Delta, 2*Delta, ..., T_max (t=2 and t=4 for T_max=4,
\* Delta=2), never at elapsed time 0 nor after T_max, and a timeout follows
\* exactly T_max/Delta queries.
C1_PollsAfterEachSleep ==
    \A t \in Tasks, a \in Activities :
        /\ \A i \in 1..Len(polls[t][a]) :
               /\ AskedAt(t, a, i) = i * wait_interval
               /\ AskedAt(t, a, i) <= max_wait_time
        /\ pc[t][a] = "timeout" => Len(polls[t][a]) * wait_interval >= max_wait_time

\* C1, amended: the i-th query is made at elapsed time (i-1)*Delta, the first
\* one at elapsed time 0, and every query is made before T_max; a timeout is
\* signalled after exactly ceil(T_max/Delta) queries and not before that many
\* sleeps have passed; for T_max=4, Delta=2 the queries are at t=0 and t=2.
\* Elapsed time is counted from the moment the waiter begins to run.
C1_PollSchedule ==
    \A t \in Tasks, a \in Activities :
        /\ \A i \in 1..Len(polls[t][a]) :
               /\ AskedAt(t, a, i) = (i - 1) * wait_interval
               /\ AskedAt(t, a, i) < max_wait_time
        /\ pc[t][a] = "timeout" =>
               /\ Len(polls[t][a]) * wait_interval >= max_wait_time
               /\ (Len(polls[t][a]) - 1) * wait_interval < max_wait_time
               /\ Elapsed(t, a) >= Len(polls[t][a]) * wait_interval
               /\ Elapsed(t, a) >= max_wait_time
               /\ (max_wait_time = 4 /\ wait_interval = 2) =>
                      /\ Len(polls[t][a]) = 2
                      /\ <<AskedAt(t, a, 1), AskedAt(t, a, 2)>> = <<0, 2>>

C1_Witness ==
    \E t \in Tasks, a \in Activities :
        /\ pc[t][a] = "timeout"
        /\ Len(polls[t][a]) >= 2
        /\ StatusOf(record[t]) = "running"

\* A report file written for the upload of task t: create_simple_report is
\* given the uploaded file's path by the activity only.
ActivityReport(t, file) ==
    /\ file.exists
    /\ file.content.report_info.task_id = t
    /\ file.content.report_info.file_path = args[t].file_path

\* C5: an activity whose wait ran out is over for good: it makes no query at
\* or after T_max, it stays timed out, it makes no further query and writes
\* nothing; the payload of its task is absent, also when the task completes
\* afterwards, and a payload that exists was written before T_max.
C5_TimeoutProducesNothing ==
    /\ [](\A t \in Tasks :
            /\ \A a \in Activities :
                   \A i \in 1..Len(polls[t][a]) : AskedAt(t, a, i) < max_wait_time
            /\ pc[t]["store"] = "timeout" => ~structured[StructuredFileName(t)].exists
            /\ structured[StructuredFileName(t)].exists =>
                   structured[StructuredFileName(t)].content.timestamp - begun[t]["store"]
                       < max_wait_time)
    /\ [][\A t \in Tasks, a \in Activities :
            pc[t][a] = "timeout" =>
                /\ pc'[t][a] = "timeout"
                /\ polls'[t][a] = polls[t][a]
                /\ a = "store" => structured' = structured
                /\ a = "report" =>
                       \A n \in ReportNames :
                           reports'[n] # reports[n] => ~ActivityReport(t, reports'[n])]_vars

C5_Witness ==
    \E t \in Tasks :
        /\ pc[t]["store"] = "timeout"
        /\ pc[t]["report"] = "timeout"
        /\ record[t] = [status |-> "completed",
                        result |-> [detection_results |-> SampleResults]]
        /\ ~structured[StructuredFileName(t)].exists
        /\ \A n \in ReportNames : ~reports[n].exists

NotYetComplete == {"pending", "running", "failed", "no_record"}

\* C6: an answer of failed, pending, running or no record never ends the loop
\* and never raises: while the task is not completed an activity that has
\* begun is querying, sleeping one interval after its last query, or timed out
\* after the full wait, and until it has timed out it can always take its next
\* step or let time pass; an activity asleep has seen a status that is not
\* `completed`.
C6_NotCompleteKeepsPolling ==
    \A t \in Tasks, a \in Activities :
        /\ (pc[t][a] \notin {"idle", "queued"} /\ StatusOf(record[t]) \in NotYetComplete) =>
               /\ pc[t][a] \in {"query", "sleep", "timeout"}
               /\ pc[t][a] = "query" => ENABLED Query(t, a)
               /\ pc[t][a] = "sleep" =>
                      IF now = wake_at[t][a] THEN ENABLED Wake(t, a) ELSE ENABLED Progress
               /\ pc[t][a] = "timeout" =>
                      /\ Len(polls[t][a]) * wait_interval >= max_wait_time
                      /\ Elapsed(t, a) >= max_wait_time
        /\ pc[t][a] = "sleep" =>
               /\ StatusOf(task_status[t][a]) \in NotYetComplete
               /\ wake_at[t][a] - begun[t][a] = Len(polls[t][a]) * wait_interval
               /\ now <= wake_at[t][a]

\* A task that failed while the first waiter was asleep: both waits end in a
\* timeout.
C6_Witness ==
    \E t \in Tasks :
        /\ pc[t]["report"] = "timeout"
        /\ pc[t]["store"] = "sleep"
        /\ StatusOf(task_status[t]["store"]) = "failed"
        /\ StatusOf(record[t]) = "failed"
        /\ polls[t]["report"][1] = 0

\* The variables of one activity and the directory it writes to.
ActivityState(t, a) ==
    <<pc[t][a], waited_time[t][a], task_status[t][a], wake_at[t][a], polls[t][a],
      IF a = "report" THEN reports ELSE structured>>

\* C7, as stated: a step of one activity of a task (a query, a wake-up, a
\* timeout, an exception, an exit without result, a write) changes neither the
\* other activity's variables and artifact nor the task's record.
C7_ActivitiesIndependent ==
    [][\A t \in Tasks :
         pc[t]["report"] # "idle" =>
            /\ ActivityState(t, "report")' # ActivityState(t, "report") =>
                   /\ ActivityState(t, "store")' = ActivityState(t, "store")
                   /\ record' = record
            /\ ActivityState(t, "store")' # ActivityState(t, "store") =>
                   /\ ActivityState(t, "report")' = ActivityState(t, "report")
                   /\ record' = record]_vars

(***************************************************************************)
(* Properties of the artifacts and of their retrieval.                     *)
(***************************************************************************)
\* C3: a request for the structured payload of a task id that has no
\* persisted payload ends in 404, never in 500.  (Payloads are never removed,
\* so a payload absent now was absent when the request was made.)
C3_AbsentPayloadIsNotFound ==
    (/\ response # None
     /\ response.handler = "get_structured_data"
     /\ ~structured[StructuredFileName(response.task_id)].exists)
        => response.status_code = 404

\* C4: an activity that has written its artifact has it in storage under a
\* key of its own task: the report of one task is never replaced by the report
\* of another task, and likewise the structured payload.
C4_ArtifactsKeyedByTask ==
    \A t \in Tasks :
        /\ (pc[t]["report"] = "done" /\ ~has_gdr) =>
               \E n \in ReportNames :
                   reports[n].exists /\ reports[n].content.report_info.task_id = t
        /\ pc[t]["store"] = "done" =>
               /\ structured[StructuredFileName(t)].exists
               /\ structured[StructuredFileName(t)].content.task_id = t

(***************************************************************************)
(* Properties of the pure transforms.                                      *)
(***************************************************************************)
FnIssues == Get(fn_in.detection_results, "issues", <<>>)

\* C2: two constructions of the payload from the same input, at any two
\* moments, give documents equal in every field, timestamp included.
C2_PayloadsIdentical == Len(fn_docs) = 2 => fn_docs[1] = fn_docs[2]

TierNames == {"critical", "high", "medium", "low"}

Occurrences(seq, x) == Cardinality({i \in 1..Len(seq) : seq[i] = x})

RECURSIVE IsSubsequence(_, _)
\* sub can be obtained from seq by removing elements.
IsSubsequence(sub, seq) ==
    IF Len(sub) = 0 THEN TRUE
    ELSE IF Len(seq) = 0 THEN FALSE
    ELSE IF sub[1] = seq[1] THEN IsSubsequence(Tail(sub), Tail(seq))
    ELSE IsSubsequence(sub, Tail(seq))

\* C8: the result has exactly the four tiers; every finding of the input is in
\* exactly one tier, there as often as in the input, and nothing else is in a
\* tier; every tier keeps the input order.
C8_TiersPartitionInput ==
    fn_cat # None =>
        /\ DOMAIN fn_cat = TierNames
        /\ \A i \in 1..Len(FnIssues) :
               \E tier \in TierNames :
                   /\ Occurrences(fn_cat[tier], FnIssues[i]) = Occurrences(FnIssues, FnIssues[i])
                   /\ \A other \in TierNames \ {tier} :
                          Occurrences(fn_cat[other], FnIssues[i]) = 0
        /\ \A tier \in TierNames :
               /\ IsSubsequence(fn_cat[tier], FnIssues)
               /\ \A j \in 1..Len(fn_cat[tier]) : Occurrences(FnIssues, fn_cat[tier][j]) > 0

C8_Witness ==
    /\ fn_cat # None
    /\ Len(FnIssues) = MaxShort
    /\ FnIssues[1] = FnIssues[MaxShort]
    /\ Len(fn_cat["critical"]) = MaxShort

\* The types of TypeValues and SmallFindings that hold one of the seven keywords,
\* in any letter case.
SecurityTypes ==
    {"sql_injection", "SQL_Injection", "XSS", "hardcoded_secrets", "weak_password",
     "csrf_token", "Security_Misconfig", "vulnerability"}

\* The tier the rule of C9 gives a finding.
ExpectedTier(issue) ==
    IF "severity" \in DOMAIN issue /\ issue.severity = "error"
    THEN IF "type" \in DOMAIN issue /\ issue.type \in SecurityTypes
         THEN "critical" ELSE "high"
    ELSE IF "severity" \in DOMAIN issue /\ issue.severity = "warning" THEN "medium"
    ELSE "low"

\* C9: every finding is in the tier of the first matching rule: critical for
\* an error whose type holds a security keyword, high for any other error,
\* medium for a warning, low for the rest (info, missing, unrecognized); an
\* error of type sql_injection is critical, a warning of that type medium.
C9_TierByFirstMatchingRule ==
    fn_cat # None =>
        \A i \in 1..Len(FnIssues) :
            /\ Occurrences(fn_cat[ExpectedTier(FnIssues[i])], FnIssues[i]) > 0
            /\ (GetIs(FnIssues[i], "type", "sql_injection")
                /\ GetIs(FnIssues[i], "severity", "error"))
                   => Occurrences(fn_cat["critical"], FnIssues[i]) > 0
            /\ (GetIs(FnIssues[i], "type", "sql_injection")
                /\ GetIs(FnIssues[i], "severity", "warning"))
                   => Occurrences(fn_cat["medium"], FnIssues[i]) > 0

C9_Witness ==
    /\ fn_cat # None
    /\ \E j \in 1..Len(fn_cat["critical"]) : fn_cat["critical"][j].type = "SQL_Injection"

ErrorPositions == {i \in 1..Len(FnIssues) : GetIs(FnIssues[i], "severity", "error")}
WarningPositions == {i \in 1..Len(FnIssues) : GetIs(FnIssues[i], "severity", "warning")}

\* The k-th smallest element of a set of positions.
Nth(positions, k) ==
    CHOOSE i \in positions : Cardinality({j \in positions : j <= i}) = k

\* What the report lists for a finding: its type, line and message.
Listed(issue) ==
    [type |-> IF "type" \in DOMAIN issue THEN issue.type ELSE "unknown",
     line |-> IF "line" \in DOMAIN issue THEN issue.line ELSE 0,
     message |-> IF "message" \in DOMAIN issue THEN issue.message ELSE ""]

SummaryCount(summary, severity) ==
    {summary[i].count : i \in {j \in 1..Len(summary) : summary[j].severity = severity}}

\* C10: for an aggregate of Findings with total_issues > 0, n errors and m
\* warnings, the critical section
\* lists the first min(n,5) errors and the warnings section the first min(m,5)
\* warnings, in input order; the header states n and m, and the closing
\* summary states n and m (a count of zero has no line in the summary); with 7
\* errors 5 are listed and the summary states 7.
C10_TruncatedListsFullCounts ==
    (/\ fn_report # None
     /\ WellFormed(fn_in.detection_results)
     /\ Get(fn_in.detection_results, "total_issues", 0) > 0) =>
        LET n == Cardinality(ErrorPositions)
            m == Cardinality(WarningPositions)
        IN /\ fn_report.document = "report"
           /\ Len(fn_report.critical_section) = Min(n, 5)
           /\ Len(fn_report.warning_section) = Min(m, 5)
           /\ \A k \in 1..Min(n, 5) :
                  fn_report.critical_section[k] = Listed(FnIssues[Nth(ErrorPositions, k)])
           /\ \A k \in 1..Min(m, 5) :
                  fn_report.warning_section[k] = Listed(FnIssues[Nth(WarningPositions, k)])
           /\ fn_report.error_count = n
           /\ fn_report.warning_count = m
           /\ SummaryCount(fn_report.summary, "error") = (IF n > 0 THEN {n} ELSE {})
           /\ SummaryCount(fn_report.summary, "warning") = (IF m > 0 THEN {m} ELSE {})
           /\ n = 7 => /\ Len(fn_report.critical_section) = 5
                       /\ SummaryCount(fn_report.summary, "error") = {7}

C10_Witness ==
    /\ fn_report # None
    /\ Cardinality(ErrorPositions) = 7
    /\ Len(fn_report.critical_section) = 5
    /\ fn_report.critical_section[5].line = 5
    /\ SummaryCount(fn_report.summary, "error") = {7}

(***************************************************************************)
(* Properties of a completed answer.                                       *)
(***************************************************************************)
\* The step is a status query of activity a of task t.
QueryStep(t, a) == pc[t][a] = "query" /\ polls'[t][a] # polls[t][a]

ObservesCompleted(t) == record[t] # None /\ record[t].status = "completed"

\* C14: a status query that observes `completed` is never reported as a
\* timeout: at every query waited_time is below max_wait_time, and the query
\* that observes `completed` takes the activity past the timeout return (to the
\* artifact or the agent's call that makes it, to the return for empty results,
\* or to the handler of an error raised on the way), the artifact being built
\* from the record this query observed.
C14_CompletedIsNotTimeout ==
    [][\A t \in Tasks : \A a \in Activities :
          (QueryStep(t, a) /\ ObservesCompleted(t)) =>
              /\ waited_time[t][a] < max_wait_time
              /\ pc'[t][a] \in {"done", "agent", "no_result", "error"}
              /\ pc'[t][a] = "agent" =>
                     a = "report" /\ has_gdr /\ task_status'[t][a] = record[t]
              /\ (pc'[t][a] = "done" /\ a = "store") =>
                     structured'[StructuredFileName(t)] =
                         File(StructuredData(t, args[t].file_path, args[t].analysis_type,
                                             record[t].result.detection_results, now))
              /\ (pc'[t][a] = "done" /\ a = "report" /\ ~has_gdr) =>
                     reports'[ReportFileName(now)] =
                         File(SimpleReport(record[t].result.detection_results,
                                           args[t].file_path, t, now))]_vars

\* `completed` observed by the last query the window allows, and the payload
\* written.
C14_Witness ==
    \E t \in Tasks :
        LET last == Len(polls[t]["store"])
        IN /\ pc[t]["store"] = "done"
           /\ last > 1
           /\ AskedAt(t, "store", last) < max_wait_time
           /\ AskedAt(t, "store", last) + wait_interval >= max_wait_time
           /\ structured[StructuredFileName(t)].exists

(***************************************************************************)
(* Properties of the project structure analysis.                           *)
(***************************************************************************)
\* The file a finding is counted under.
FileOrUnknown(issue) == IF "file" \in DOMAIN issue THEN issue.file ELSE "unknown"

DistinctFiles == {FileOrUnknown(FnIssues[i]) : i \in 1..Len(FnIssues)}

FindingsOf(file) == {i \in 1..Len(FnIssues) : FileOrUnknown(FnIssues[i]) = file}

\* Six findings of a.py and one of b.py, in any order.
SixAndOne ==
    /\ DistinctFiles = {"a.py", "b.py"}
    /\ Cardinality(FindingsOf("a.py")) = 6
    /\ Cardinality(FindingsOf("b.py")) = 1

\* C12: in every payload built, high_issue_files is the number of distinct
\* files (a missing file counted as "unknown") with more than 5 findings and
\* average_issues_per_file is the number of findings divided by the number of
\* distinct files; for an empty list both are 0; for six findings of a.py and
\* one of b.py they are 1 and 7/2.
C12_StructureCounts ==
    \A k \in 1..Len(fn_docs) :
        LET indicators == fn_docs[k].project_structure.complexity_indicators
            average == indicators.average_issues_per_file
        IN /\ average.den > 0
           /\ indicators.high_issue_files =
                  Cardinality({f \in DistinctFiles : Cardinality(FindingsOf(f)) > 5})
           /\ Len(FnIssues) > 0 =>
                  average.num * Cardinality(DistinctFiles) = Len(FnIssues) * average.den
           /\ Len(FnIssues) = 0 =>
                  indicators.high_issue_files = 0 /\ average.num = 0
           /\ SixAndOne =>
                  indicators.high_issue_files = 1 /\ 2 * average.num = 7 * average.den

C12_Witness ==
    /\ Len(fn_docs) > 0
    /\ SixAndOne
    /\ fn_docs[1].project_structure.complexity_indicators.high_issue_files = 1
    /\ fn_docs[1].project_structure.complexity_indicators.average_issues_per_file
           = [num |-> 7, den |-> 2]

(***************************************************************************)
(* Properties of the report's error handling.                              *)
(***************************************************************************)
DocumentKinds == {"no_defects", "report", "error"}

\* The positions of `issues` that hold something other than a dict.
MalformedPositions == {i \in 1..Len(FnIssues) : FnIssues[i] \in MalformedEntries}

\* The statement of the body that raises on the input, if any: the first read
\* of detection_results when it is not a dict; otherwise, when total_issues is
\* not zero, the first entry of `issues` that is not a dict.
RaisingValue ==
    IF fn_in.detection_results = None
    THEN {None}
    ELSE IF Get(fn_in.detection_results, "total_issues", 0) # 0
            /\ MalformedPositions # {}
    THEN {FnIssues[Nth(MalformedPositions, 1)]}
    ELSE {}

\* C11: generate_ai_report always returns a document and never ends in an
\* exception: when a statement of the body raises (detection_results is not a
\* dict, or an entry of `issues` is not a dict and total_issues is not zero)
\* the returned document is the error document and embeds the description of
\* that error; when nothing raises the document is the report or the
\* no-defects document.
C11_ReportNeverRaises ==
    fn_report # None =>
        /\ DOMAIN fn_report \subseteq
               {"document", "error", "file_path", "total_issues", "error_count",
                "warning_count", "info_count", "critical_section",
                "warning_section", "suggestions", "summary"}
        /\ "document" \in DOMAIN fn_report
        /\ fn_report.document \in DocumentKinds
        /\ \A value \in RaisingValue :
               /\ fn_report.document = "error"
               /\ fn_report.error.exception = "AttributeError"
               /\ fn_report.error.object = (IF value = None THEN "NoneType" ELSE "str")
        /\ RaisingValue = {} => fn_report.document # "error"

\* A Finding followed by a string: the error document names the string.
C11_Witness ==
    /\ fn_report # None
    /\ Len(FnIssues) = 2
    /\ FnIssues[1] = KindFinding("E", 1)
    /\ FnIssues[2] = PyStr("oops")
    /\ fn_report.document = "error"
    /\ fn_report.error.object = "str"

(***************************************************************************)
(* Properties of the severity default.                                     *)
(***************************************************************************)
\* A finding whose severity is missing or is none of error, warning, info.
UnrecognizedSeverity(issue) ==
    "severity" \in DOMAIN issue => issue.severity \notin {"error", "warning", "info"}

\* C13, as stated: a Finding whose severity is missing or unrecognized is
\* treated as info by every transform: the classifier puts it in `low`, and in
\* the narrative report it is part of the info count, so that the error,
\* warning and info counts of the header add up to the number of Findings.
C13_UnrecognizedCountedAsInfo ==
    WellFormed(fn_in.detection_results) =>
        /\ fn_cat # None =>
               \A i \in 1..Len(FnIssues) :
                   UnrecognizedSeverity(FnIssues[i])
                       => Occurrences(fn_cat["low"], FnIssues[i]) > 0
        /\ (fn_report # None /\ fn_report.document = "report") =>
               /\ fn_report.info_count =
                      Cardinality({i \in 1..Len(FnIssues) :
                                      \/ GetIs(FnIssues[i], "severity", "info")
                                      \/ UnrecognizedSeverity(FnIssues[i])})
               /\ fn_report.error_count + fn_report.warning_count
                      + fn_report.info_count = Len(FnIssues)

====
